---- MODULE Spec2Model ----
(***************************************************************************)
(* Model of prommetricsgenerate.py: a single-threaded HTTP server that     *)
(* records synthetic telemetry into a prometheus_client registry           *)
(* ("registry A") and into OpenTelemetry instruments ("registry B").       *)
(*                                                                         *)
(* Units.  Durations are in milliseconds, cpu_usage in hundredths of a     *)
(* percent, sizes in bytes; all are integers.                              *)
(***************************************************************************)
EXTENDS Integers, Sequences, FiniteSets, TLC

VARIABLES
  regA,              \* prometheus_client children of every labelled metric
  prom_app_state,    \* the Enum's active state
  regB,              \* measurements given to the OpenTelemetry instruments
  otel_gauge_values, \* the snapshot the observable-gauge callbacks read
  rng,               \* state of the `random` module's generator
  process_cpu,       \* CPU time the operating system has charged the process
  pc,                \* position of the main thread
  i,                 \* loop index of the running generator
  req,               \* the request being handled
  resp,              \* the last response written
  generations,       \* generating requests dispatched so far
  promCalls,         \* history: every record call made on registry A
  entry,             \* history: registry-A totals when the handler started
  scrapes            \* history: /metrics replies since a generating request
                     \* was last dispatched: 0, 1, or 2 for two or more

vars == <<regA, prom_app_state, regB, otel_gauge_values, rng, process_cpu, pc, i,
          req, resp, generations, promCalls, entry, scrapes>>

-----------------------------------------------------------------------------
(* Bounds of the model *)

NumSeeds == 3
MaxGenerations == 2
MaxProcessCpu == 1

-----------------------------------------------------------------------------
(* The random source: Python's `random` is a deterministic generator whose *)
(* seed is taken from the environment at import.  It is modelled by a      *)
(* full-period linear congruential generator over 0..RandModulus-1; a draw *)
(* r stands for the fraction r/RandModulus in [0,1).                       *)

RandModulus == 32768
RandMultiplier == 25173
RandIncrement == 13849

NextRandom(s) == (s * RandMultiplier + RandIncrement) % RandModulus

\* random.choice(seq)
choice(seq, r) == seq[1 + (r * Len(seq)) \div RandModulus]

\* random.random() < num/den
random_lt(r, num, den) == r * den < num * RandModulus

\* random.randint(a, b) and random.uniform(a, b) on the integer grid: linear
\* in r, a at r = 0 and b at r = RandModulus - 1.
randint(r, a, b) ==
  LET q == (b - a) \div (RandModulus - 1)
      m == (b - a) % (RandModulus - 1)
  IN  a + r * q + (r * m) \div (RandModulus - 1)

uniform(r, a, b) == randint(r, a, b)

-----------------------------------------------------------------------------
(* Label values and sample counts of the generators *)

methods == <<"GET", "POST", "PUT", "DELETE">>
endpoints == <<"/users", "/orders", "/products", "/auth">>
query_types == <<"SELECT", "INSERT", "UPDATE", "DELETE">>
tables == <<"users", "orders", "products">>
protocols == <<"http", "grpc", "websocket">>
regions == <<"heap", "stack", "cache">>
queues == <<"high_priority", "normal", "low_priority">>

HttpCount == 50
DbCount == 30
PayloadCount == 20

Range(s) == {s[k] : k \in 1..Len(s)}

-----------------------------------------------------------------------------
(* Registry A: prometheus_client metrics.  A labelled metric keeps its     *)
(* children in a dict in order of first use: keys is that order, val the   *)
(* child of each label-value tuple.                                        *)

PromKind ==
  [ http_requests_total              |-> "counter",
    http_errors_total                |-> "counter",
    bytes_processed_total            |-> "counter",
    active_connections               |-> "gauge",
    memory_usage_bytes               |-> "gauge",
    queue_size                       |-> "gauge",
    cpu_usage_percent                |-> "gauge",
    http_request_duration_seconds    |-> "histogram",
    db_query_duration_seconds        |-> "histogram",
    response_size_bytes              |-> "histogram",
    request_duration_seconds_summary |-> "summary",
    payload_size_bytes_summary       |-> "summary" ]

\* Registration order, which is the order of the exposition.
PromOrder ==
  << "http_requests_total", "http_errors_total", "bytes_processed_total",
     "active_connections", "memory_usage_bytes", "queue_size",
     "cpu_usage_percent", "http_request_duration_seconds",
     "db_query_duration_seconds", "response_size_bytes",
     "request_duration_seconds_summary", "payload_size_bytes_summary" >>

PromLabelNames ==
  [ http_requests_total              |-> <<"method", "endpoint", "status">>,
    http_errors_total                |-> <<"method", "endpoint", "error_type">>,
    bytes_processed_total            |-> <<"operation">>,
    active_connections               |-> <<"protocol">>,
    memory_usage_bytes               |-> <<"region">>,
    queue_size                       |-> <<"queue_name">>,
    cpu_usage_percent                |-> <<>>,
    http_request_duration_seconds    |-> <<"method", "endpoint", "status">>,
    db_query_duration_seconds        |-> <<"query_type", "table">>,
    response_size_bytes              |-> <<"endpoint">>,
    request_duration_seconds_summary |-> <<"method", "endpoint">>,
    payload_size_bytes_summary       |-> <<"direction">> ]

\* Finite bucket boundaries; the client appends +Inf.
PromBuckets ==
  [ http_request_duration_seconds |-> <<100, 500, 1000, 2000, 5000, 10000>>,
    db_query_duration_seconds     |-> <<1, 5, 10, 25, 50, 100, 250, 500, 1000>>,
    response_size_bytes           |-> <<100, 1000, 10000, 100000, 1000000, 10000000>> ]

app_info ==
  [ version |-> "1.2.3", environment |-> "production",
    build_date |-> "2024-12-01", git_commit |-> "abc123def" ]

app_states == <<"starting", "running", "degraded", "shutting_down">>

EmptyMetric == [keys |-> <<>>, val |-> <<>>]

\* The initial child of a metric: labels() creates it on first use.
NewChild(name) ==
  CASE PromKind[name] = "counter"   -> 0
    [] PromKind[name] = "gauge"     -> 0
    [] PromKind[name] = "histogram" ->
         [buckets |-> [b \in 1..(Len(PromBuckets[name]) + 1) |-> 0], sum |-> 0]
    [] PromKind[name] = "summary"   -> [count |-> 0, sum |-> 0]

\* metric.labels(...): the child of the label values, created if absent.
labels(metric, name, key) ==
  IF key \in DOMAIN metric.val
    THEN metric
    ELSE [keys |-> Append(metric.keys, key),
          val  |-> (key :> NewChild(name)) @@ metric.val]

\* Variant: the amount is dropped and the default of 1 added.
inc_Default(value, amount) == value + 1

\* Counter.inc(amount)
inc(value, amount) == value + amount

\* Variant: Gauge.inc in place of Gauge.set.
set_Inc(value, v) == value + v

\* Gauge.set(value)
set(value, v) == v

\* Index of the first bucket whose upper bound is >= amount; the last
\* bucket is +Inf.
RECURSIVE BucketIndex(_, _, _)
BucketIndex(bounds, amount, b) ==
  IF b > Len(bounds) \/ amount <= bounds[b] THEN b
  ELSE BucketIndex(bounds, amount, b + 1)

\* Histogram.observe(amount): the sum, and the one bucket the amount falls in.
observe(child, bounds, amount) ==
  [ buckets |-> [child.buckets EXCEPT ![BucketIndex(bounds, amount, 1)] = @ + 1],
    sum     |-> child.sum + amount ]

\* Summary.observe(amount)
summary_observe(child, amount) ==
  [count |-> child.count + 1, sum |-> child.sum + amount]

\* One record call <<name, label values, amount>> applied to the registry.
Record(reg, call) ==
  LET name == call[1]
      key == call[2]
      v == call[3]
      m == labels(reg[name], name, key)
      child == m.val[key]
      new == CASE PromKind[name] = "counter"   -> inc(child, v)
               [] PromKind[name] = "gauge"     -> set(child, v)
               [] PromKind[name] = "histogram" -> observe(child, PromBuckets[name], v)
               [] PromKind[name] = "summary"   -> summary_observe(child, v)
  IN  [reg EXCEPT ![name] = [m EXCEPT !.val[key] = new]]

RECURSIVE RecordAll(_, _)
RecordAll(reg, calls) ==
  IF calls = <<>> THEN reg
  ELSE RecordAll(Record(reg, Head(calls)), Tail(calls))

-----------------------------------------------------------------------------
(* Registry B: the OpenTelemetry instruments.  regB holds, per instrument  *)
(* and attribute tuple, what the instrument was given: the sum of the      *)
(* amounts added to a counter, the count and sum of the values recorded in *)
(* a histogram.  The observable gauges hold nothing: their callbacks read  *)
(* otel_gauge_values.                                                      *)

OtelKind ==
  [ http_requests_total           |-> "counter",
    http_errors_total             |-> "counter",
    bytes_processed_total         |-> "counter",
    http_request_duration_seconds |-> "histogram",
    db_query_duration_seconds     |-> "histogram",
    response_size_bytes           |-> "histogram",
    payload_size_bytes            |-> "histogram" ]

\* The instruments in the order the meter creates them: name, description
\* and unit as given to create_counter, create_observable_gauge and
\* create_histogram.
OtelInstruments ==
  << [name |-> "http_requests_total", description |-> "Total HTTP requests",
      unit |-> "1", type |-> "Counter"],
     [name |-> "http_errors_total", description |-> "Total HTTP errors",
      unit |-> "1", type |-> "Counter"],
     [name |-> "bytes_processed_total", description |-> "Total bytes processed",
      unit |-> "bytes", type |-> "Counter"],
     [name |-> "active_connections", description |-> "Number of active connections",
      unit |-> "1", type |-> "Observable Gauge"],
     [name |-> "memory_usage_bytes", description |-> "Current memory usage in bytes",
      unit |-> "bytes", type |-> "Observable Gauge"],
     [name |-> "queue_size", description |-> "Current queue size",
      unit |-> "1", type |-> "Observable Gauge"],
     [name |-> "cpu_usage_percent", description |-> "Current CPU usage percentage",
      unit |-> "%", type |-> "Observable Gauge"],
     [name |-> "http_request_duration_seconds",
      description |-> "HTTP request duration in seconds",
      unit |-> "s", type |-> "Histogram"],
     [name |-> "db_query_duration_seconds",
      description |-> "Database query duration in seconds",
      unit |-> "s", type |-> "Histogram"],
     [name |-> "response_size_bytes", description |-> "HTTP response size in bytes",
      unit |-> "bytes", type |-> "Histogram"],
     [name |-> "payload_size_bytes", description |-> "Payload size",
      unit |-> "bytes", type |-> "Histogram"] >>

\* Variant: the amount replaces the accumulated value.
add_Replace(series, attrs, amount) ==
  IF attrs \in DOMAIN series
    THEN [series EXCEPT ![attrs] = amount]
    ELSE (attrs :> amount) @@ series

\* Counter.add(amount, attributes)
add(series, attrs, amount) ==
  IF attrs \in DOMAIN series
    THEN [series EXCEPT ![attrs] = @ + amount]
    ELSE (attrs :> amount) @@ series

\* Histogram.record(amount, attributes)
record(series, attrs, amount) ==
  IF attrs \in DOMAIN series
    THEN [series EXCEPT ![attrs] = [count |-> @.count + 1, sum |-> @.sum + amount]]
    ELSE (attrs :> [count |-> 1, sum |-> amount]) @@ series

OtelRecord(reg, call) ==
  LET name == call[1]
  IN  [reg EXCEPT ![name] =
         IF OtelKind[name] = "counter" THEN add(@, call[2], call[3])
         ELSE record(@, call[2], call[3])]

RECURSIVE OtelRecordAll(_, _)
OtelRecordAll(reg, calls) ==
  IF calls = <<>> THEN reg
  ELSE OtelRecordAll(OtelRecord(reg, Head(calls)), Tail(calls))

\* The arguments of Resource.create and of metrics.get_meter.
resource ==
  [ service_name           |-> "prometheus-metrics-app",
    service_version        |-> "1.2.3",
    service_instance_id    |-> "instance-1",
    deployment_environment |-> "production" ]

meter == [name |-> "prometheus-metrics-app", version |-> "1.2.3"]

-----------------------------------------------------------------------------
(* The generators.  Each returns the record calls of one loop iteration    *)
(* (or of the one system pass) in program order, and the generator state   *)
(* after its draws.                                                        *)

\* The n successive states of the random source after s.
RECURSIVE Draws(_, _)
Draws(s, n) ==
  IF n = 0 THEN <<>> ELSE <<NextRandom(s)>> \o Draws(NextRandom(s), n - 1)

\* The draws of one iteration of an HTTP generator: method, endpoint, the
\* 0.9 test, the 0.5 test only when the first failed, duration, and the
\* response size.
\* Variant: both error branches tag the error not_found.
HttpDraw_NotFoundOnly(s) ==
  LET r1 == NextRandom(s)
      r2 == NextRandom(r1)
      r3 == NextRandom(r2)
      ok == random_lt(r3, 9, 10)
      r4 == IF ok THEN r3 ELSE NextRandom(r3)
      notFound == ~ok /\ random_lt(r4, 5, 10)
      r5 == NextRandom(r4)
      r6 == NextRandom(r5)
  IN  [ method        |-> choice(methods, r1),
        endpoint      |-> choice(endpoints, r2),
        status        |-> IF ok THEN "200" ELSE IF notFound THEN "404" ELSE "500",
        error_type    |-> IF ok THEN "" ELSE "not_found",
        duration      |-> IF ok THEN uniform(r5, 50, 2000)
                          ELSE IF notFound THEN uniform(r5, 10, 100)
                          ELSE uniform(r5, 500, 5000),
        response_size |-> randint(r6, 100, 50000),
        rng           |-> r6 ]

HttpDraw(s) ==
  LET r1 == NextRandom(s)
      r2 == NextRandom(r1)
      r3 == NextRandom(r2)
      ok == random_lt(r3, 9, 10)
      r4 == IF ok THEN r3 ELSE NextRandom(r3)
      notFound == ~ok /\ random_lt(r4, 5, 10)
      r5 == NextRandom(r4)
      r6 == NextRandom(r5)
  IN  [ method        |-> choice(methods, r1),
        endpoint      |-> choice(endpoints, r2),
        status        |-> IF ok THEN "200" ELSE IF notFound THEN "404" ELSE "500",
        error_type    |-> IF ok THEN "" ELSE IF notFound THEN "not_found"
                                                         ELSE "internal_error",
        duration      |-> IF ok THEN uniform(r5, 50, 2000)
                          ELSE IF notFound THEN uniform(r5, 10, 100)
                          ELSE uniform(r5, 500, 5000),
        response_size |-> randint(r6, 100, 50000),
        rng           |-> r6 ]

\* Variant: an error sample returns to the loop head after the error counter.
PromHttpCalls_SkipOnError(d) ==
  IF d.error_type # ""
    THEN << <<"http_errors_total", <<d.method, d.endpoint, d.error_type>>, 1>> >>
    ELSE << <<"http_requests_total", <<d.method, d.endpoint, d.status>>, 1>>,
            <<"http_request_duration_seconds", <<d.method, d.endpoint, d.status>>, d.duration>>,
            <<"request_duration_seconds_summary", <<d.method, d.endpoint>>, d.duration>>,
            <<"response_size_bytes", <<d.endpoint>>, d.response_size>> >>

PromHttpCalls(d) ==
  (IF d.error_type = "" THEN <<>>
   ELSE << <<"http_errors_total", <<d.method, d.endpoint, d.error_type>>, 1>> >>)
  \o << <<"http_requests_total", <<d.method, d.endpoint, d.status>>, 1>>,
        <<"http_request_duration_seconds", <<d.method, d.endpoint, d.status>>, d.duration>>,
        <<"request_duration_seconds_summary", <<d.method, d.endpoint>>, d.duration>>,
        <<"response_size_bytes", <<d.endpoint>>, d.response_size>> >>

OtelHttpCalls(d) ==
  (IF d.error_type = "" THEN <<>>
   ELSE << <<"http_errors_total", <<d.method, d.endpoint, d.error_type>>, 1>> >>)
  \o << <<"http_requests_total", <<d.method, d.endpoint, d.status>>, 1>>,
        <<"http_request_duration_seconds", <<d.method, d.endpoint, d.status>>, d.duration>>,
        <<"response_size_bytes", <<d.endpoint>>, d.response_size>> >>

\* One iteration of a database generator.
DbDraw(s) ==
  LET r == Draws(s, 3)
      query_type == choice(query_types, r[1])
  IN  [ query_type |-> query_type,
        table      |-> choice(tables, r[2]),
        duration   |-> IF query_type = "SELECT" THEN uniform(r[3], 1, 100)
                       ELSE uniform(r[3], 5, 200),
        rng        |-> r[3] ]

PromDbCalls(d) ==
  << <<"db_query_duration_seconds", <<d.query_type, d.table>>, d.duration>> >>

OtelDbCalls(d) ==
  << <<"db_query_duration_seconds", <<d.query_type, d.table>>, d.duration>> >>

\* The twelve draws of a system pass.
SystemDraw(s) ==
  LET r == Draws(s, 12)
  IN  [ active_connections |-> [k \in 1..3 |-> randint(r[k], 10, 100)],
        memory_usage       |-> [k \in 1..3 |-> randint(r[3 + k], 1000000, 50000000)],
        queue_size         |-> [k \in 1..3 |-> randint(r[6 + k], 0, 100)],
        cpu_usage          |-> uniform(r[10], 1000, 9000),
        upload             |-> randint(r[11], 100000, 1000000),
        download           |-> randint(r[12], 500000, 5000000),
        rng                |-> r[12] ]

PromSystemCalls(d) ==
  [k \in 1..3 |-> <<"active_connections", <<protocols[k]>>, d.active_connections[k]>>]
  \o [k \in 1..3 |-> <<"memory_usage_bytes", <<regions[k]>>, d.memory_usage[k]>>]
  \o [k \in 1..3 |-> <<"queue_size", <<queues[k]>>, d.queue_size[k]>>]
  \o << <<"cpu_usage_percent", <<>>, d.cpu_usage>>,
        <<"bytes_processed_total", <<"upload">>, d.upload>>,
        <<"bytes_processed_total", <<"download">>, d.download>> >>

\* dict[key] = value
SetItem(dict, key, value) ==
  [k \in DOMAIN dict \cup {key} |-> IF k = key THEN value ELSE dict[k]]

\* for key in keys: dict[key] = values[...]
RECURSIVE SetItems(_, _, _)
SetItems(dict, keys, values) ==
  IF keys = <<>> THEN dict
  ELSE SetItems(SetItem(dict, Head(keys), Head(values)), Tail(keys), Tail(values))

\* The snapshot after a registry-B system pass: every key of the three
\* dicts is assigned, and the scalar replaced.
OtelSystemSnapshot(snap, d) ==
  [ active_connections |-> SetItems(snap.active_connections, protocols, d.active_connections),
    memory_usage       |-> SetItems(snap.memory_usage, regions, d.memory_usage),
    queue_size         |-> SetItems(snap.queue_size, queues, d.queue_size),
    cpu_usage          |-> d.cpu_usage ]

OtelSystemCalls(d) ==
  << <<"bytes_processed_total", <<"upload">>, d.upload>>,
     <<"bytes_processed_total", <<"download">>, d.download>> >>

\* One iteration of a payload generator.
PayloadDraw(s) ==
  LET r == Draws(s, 2)
  IN  [ inbound  |-> randint(r[1], 100, 10000),
        outbound |-> randint(r[2], 500, 50000),
        rng      |-> r[2] ]

PromPayloadCalls(d) ==
  << <<"payload_size_bytes_summary", <<"inbound">>, d.inbound>>,
     <<"payload_size_bytes_summary", <<"outbound">>, d.outbound>> >>

OtelPayloadCalls(d) ==
  << <<"payload_size_bytes", <<"inbound">>, d.inbound>>,
     <<"payload_size_bytes", <<"outbound">>, d.outbound>> >>

-----------------------------------------------------------------------------
(* generate_latest(): the text exposition of the default registry.  A line *)
(* is <<tag, name, label pairs, value>>; a "# TYPE" line carries the type  *)
(* as its one label pair.  The default registry also holds the client's    *)
(* own process collector, registered when prometheus_client is imported;   *)
(* its sample is read from the operating system when the body is built     *)
(* (proc, in clock ticks).                                                 *)

\* Bucket boundaries as the exposition prints them.
PromBucketLabels ==
  [ http_request_duration_seconds |-> <<"0.1", "0.5", "1.0", "2.0", "5.0", "10.0", "+Inf">>,
    db_query_duration_seconds     |->
      <<"0.001", "0.005", "0.01", "0.025", "0.05", "0.1", "0.25", "0.5", "1.0", "+Inf">>,
    response_size_bytes           |->
      <<"100.0", "1000.0", "10000.0", "100000.0", "1e+06", "1e+07", "+Inf">> ]

LabelPairs(names, key) == [k \in 1..Len(names) |-> <<names[k], key[k]>>]

RECURSIVE SumTo(_, _)
SumTo(buckets, b) == IF b = 0 THEN 0 ELSE buckets[b] + SumTo(buckets, b - 1)

\* Variant: each bucket line carries the bucket's own count.
HistogramSamples_PerBucket(name, key, child) ==
  LET pairs == LabelPairs(PromLabelNames[name], key)
      n == Len(child.buckets)
  IN  [b \in 1..n |->
         <<name \o "_bucket", Append(pairs, <<"le", PromBucketLabels[name][b]>>),
           child.buckets[b]>>]
      \o << <<name \o "_count", pairs, SumTo(child.buckets, n)>>,
            <<name \o "_sum", pairs, child.sum>> >>

\* The samples of one histogram child: cumulative buckets, count and sum.
HistogramSamples(name, key, child) ==
  LET pairs == LabelPairs(PromLabelNames[name], key)
      n == Len(child.buckets)
  IN  [b \in 1..n |->
         <<name \o "_bucket", Append(pairs, <<"le", PromBucketLabels[name][b]>>),
           SumTo(child.buckets, b)>>]
      \o << <<name \o "_count", pairs, SumTo(child.buckets, n)>>,
            <<name \o "_sum", pairs, child.sum>> >>

\* The samples of one child.
ChildSamples(name, key, child) ==
  LET pairs == LabelPairs(PromLabelNames[name], key)
  IN  CASE PromKind[name] = "counter"   -> << <<name, pairs, child>> >>
        [] PromKind[name] = "gauge"     -> << <<name, pairs, child>> >>
        [] PromKind[name] = "histogram" -> HistogramSamples(name, key, child)
        [] PromKind[name] = "summary"   ->
             << <<name \o "_count", pairs, child.count>>,
                <<name \o "_sum", pairs, child.sum>> >>

RECURSIVE MetricSamples(_, _, _)
MetricSamples(name, metric, k) ==
  IF k > Len(metric.keys) THEN <<>>
  ELSE ChildSamples(name, metric.keys[k], metric.val[metric.keys[k]])
       \o MetricSamples(name, metric, k + 1)

Line(sample) == <<"sample", sample[1], sample[2], sample[3]>>

TypeLine(name, kind) == <<"# TYPE", name, << <<"type", kind>> >>, 0>>

MetricLines(name, metric) ==
  LET samples == MetricSamples(name, metric, 1)
  IN  <<TypeLine(name, PromKind[name])>>
      \o [k \in 1..Len(samples) |-> Line(samples[k])]

RECURSIVE RegistryLines(_, _)
RegistryLines(reg, k) ==
  IF k > Len(PromOrder) THEN <<>>
  ELSE MetricLines(PromOrder[k], reg[PromOrder[k]]) \o RegistryLines(reg, k + 1)

\* Info: one sample whose labels are the fields.
InfoLines ==
  << TypeLine("app_info", "gauge"),
     <<"sample", "app_info",
       << <<"version", app_info.version>>, <<"environment", app_info.environment>>,
          <<"build_date", app_info.build_date>>, <<"git_commit", app_info.git_commit>> >>,
       1>> >>

\* Enum: one sample per declared state, 1 for the active one.
EnumLines(state) ==
  <<TypeLine("app_state", "gauge")>>
  \o [k \in 1..Len(app_states) |->
        <<"sample", "app_state", << <<"app_state", app_states[k]>> >>,
          IF app_states[k] = state THEN 1 ELSE 0>>]

ProcessLines(proc) ==
  << TypeLine("process_cpu_seconds_total", "counter"),
     <<"sample", "process_cpu_seconds_total", <<>>, proc>> >>

generate_latest(reg, state, proc) ==
  ProcessLines(proc) \o RegistryLines(reg, 1) \o InfoLines \o EnumLines(state)

\* The value a body reports for a sample name and label pairs; -1 if absent.
SampleValue(body, name, pairs) ==
  IF \E k \in 1..Len(body) : body[k][1] = "sample" /\ body[k][2] = name /\ body[k][3] = pairs
    THEN body[CHOOSE k \in 1..Len(body) :
                body[k][1] = "sample" /\ body[k][2] = name /\ body[k][3] = pairs][4]
    ELSE -1

\* The application's own lines of a body: all but the process collector's.
ApplicationLines(body) == SubSeq(body, Len(ProcessLines(0)) + 1, Len(body))

-----------------------------------------------------------------------------
(* The /otelmetrics summary, before json.dumps. *)

\* Variant: the handler's copy of the resource attributes is out of date.
summary_attributes_Stale ==
  [ service_name           |-> "prometheus-metrics-app",
    service_version        |-> "1.2.2",
    service_instance_id    |-> "instance-1",
    deployment_environment |-> "production" ]

\* The resource attributes and the scope as the handler writes them.
summary_attributes ==
  [ service_name           |-> "prometheus-metrics-app",
    service_version        |-> "1.2.3",
    service_instance_id    |-> "instance-1",
    deployment_environment |-> "production" ]

summary_scope == [name |-> "prometheus-metrics-app", version |-> "1.2.3"]

otel_metrics_summary(snap) ==
  [ resource |-> [attributes |-> summary_attributes],
    scope_metrics |->
      << [ scope |-> summary_scope,
           metrics |->
             << [name |-> "http_requests_total", description |-> "Total HTTP requests",
                 unit |-> "1", type |-> "Counter",
                 note |-> "Actual values tracked internally"],
                [name |-> "http_errors_total", description |-> "Total HTTP errors",
                 unit |-> "1", type |-> "Counter"],
                [name |-> "bytes_processed_total", description |-> "Total bytes processed",
                 unit |-> "bytes", type |-> "Counter"],
                [name |-> "active_connections",
                 description |-> "Number of active connections",
                 unit |-> "1", type |-> "Observable Gauge",
                 current_values |-> snap.active_connections],
                [name |-> "memory_usage_bytes",
                 description |-> "Current memory usage in bytes",
                 unit |-> "bytes", type |-> "Observable Gauge",
                 current_values |-> snap.memory_usage],
                [name |-> "queue_size", description |-> "Current queue size",
                 unit |-> "1", type |-> "Observable Gauge",
                 current_values |-> snap.queue_size],
                [name |-> "cpu_usage_percent",
                 description |-> "Current CPU usage percentage",
                 unit |-> "%", type |-> "Observable Gauge",
                 current_value |-> snap.cpu_usage],
                [name |-> "http_request_duration_seconds",
                 description |-> "HTTP request duration in seconds",
                 unit |-> "s", type |-> "Histogram"],
                [name |-> "db_query_duration_seconds",
                 description |-> "Database query duration in seconds",
                 unit |-> "s", type |-> "Histogram"],
                [name |-> "response_size_bytes",
                 description |-> "HTTP response size in bytes",
                 unit |-> "bytes", type |-> "Histogram"],
                [name |-> "payload_size_bytes", description |-> "Payload size",
                 unit |-> "bytes", type |-> "Histogram"] >> ] >>,
    note |-> "This is a simplified representation." ]

-----------------------------------------------------------------------------
(* The server *)

Routes == {"/", "/generatemetrics", "/metrics", "/generateotelmetrics", "/otelmetrics"}

\* The requests a client sends.
Paths == Routes \cup {"/nonexistent", "/metrics/"}
Requests == [method : {"GET", "POST"}, path : Paths]

RECURSIVE CounterTotal(_, _)
CounterTotal(metric, k) ==
  IF k > Len(metric.keys) THEN 0
  ELSE metric.val[metric.keys[k]] + CounterTotal(metric, k + 1)

RECURSIVE ObservationTotal(_, _)
ObservationTotal(metric, k) ==
  IF k > Len(metric.keys) THEN 0
  ELSE LET child == metric.val[metric.keys[k]]
       IN  SumTo(child.buckets, Len(child.buckets)) + ObservationTotal(metric, k + 1)

Totals(reg, calls) ==
  [ http_requests_total           |-> CounterTotal(reg.http_requests_total, 1),
    http_request_duration_seconds |-> ObservationTotal(reg.http_request_duration_seconds, 1),
    response_size_bytes           |-> ObservationTotal(reg.response_size_bytes, 1),
    db_query_duration_seconds     |-> ObservationTotal(reg.db_query_duration_seconds, 1),
    calls                         |-> Len(calls) ]

Init ==
  /\ regA = [name \in DOMAIN PromKind |->
               IF PromLabelNames[name] = <<>>
                 THEN labels(EmptyMetric, name, <<>>) ELSE EmptyMetric]
  /\ prom_app_state = "running"
  /\ regB = [name \in DOMAIN OtelKind |-> <<>>]
  /\ otel_gauge_values =
       [active_connections |-> <<>>, memory_usage |-> <<>>, queue_size |-> <<>>,
        cpu_usage |-> 0]
  /\ rng \in 0..(NumSeeds - 1)
  /\ process_cpu = 0
  /\ pc = "main"
  /\ i = 0
  /\ req = [method |-> "", path |-> ""]
  /\ resp = [status |-> 0, content_type |-> "", body |-> <<>>]
  /\ generations = 0
  /\ promCalls = <<>>
  /\ entry = Totals(regA, promCalls)
  /\ scrapes = 0

\* Variant: only registry A gets its baseline pass.
main_PromOnly ==
  /\ pc = "main"
  /\ LET a == SystemDraw(rng)
     IN  /\ regA' = RecordAll(regA, PromSystemCalls(a))
         /\ promCalls' = promCalls \o PromSystemCalls(a)
         /\ rng' = a.rng
  /\ pc' = "serve_forever"
  /\ UNCHANGED <<process_cpu, prom_app_state, regB, otel_gauge_values, i, req, resp,
                 generations, entry, scrapes>>

\* __main__: one system pass on each registry, then run_server.
main ==
  /\ pc = "main"
  /\ LET a == SystemDraw(rng)
         b == SystemDraw(a.rng)
     IN  /\ regA' = RecordAll(regA, PromSystemCalls(a))
         /\ promCalls' = promCalls \o PromSystemCalls(a)
         /\ otel_gauge_values' = OtelSystemSnapshot(otel_gauge_values, b)
         /\ regB' = OtelRecordAll(regB, OtelSystemCalls(b))
         /\ rng' = b.rng
  /\ pc' = "serve_forever"
  /\ UNCHANGED <<process_cpu, prom_app_state, i, req, resp, generations, entry, scrapes>>

\* do_GET, path '/'
do_GET_root ==
  /\ pc = "serve_forever"
  /\ req' = [method |-> "GET", path |-> "/"]
  /\ resp' = [status |-> 200, content_type |-> "text/html", body |-> <<"<html>">>]
  /\ UNCHANGED <<process_cpu, regA, prom_app_state, regB, otel_gauge_values, rng, pc, i,
                 generations, promCalls, entry, scrapes>>

\* do_GET, path '/generatemetrics': the headers are sent, then
\* generate_all_prometheus_metrics runs.
do_GET_generatemetrics ==
  /\ pc = "serve_forever"
  /\ generations < MaxGenerations
  /\ req' = [method |-> "GET", path |-> "/generatemetrics"]
  /\ resp' = [status |-> 200, content_type |-> "text/plain", body |-> <<>>]
  /\ pc' = "prom_http"
  /\ i' = 0
  /\ generations' = generations + 1
  /\ entry' = Totals(regA, promCalls)
  /\ scrapes' = 0
  /\ UNCHANGED <<process_cpu, regA, prom_app_state, regB, otel_gauge_values, rng, promCalls>>

\* The position after iteration i of a loop of n iterations.
LoopNext(n, next) ==
  /\ i' = IF i + 1 < n THEN i + 1 ELSE 0
  /\ pc' = IF i + 1 < n THEN pc ELSE next

\* One iteration of generate_prometheus_http_metrics(50).  An error sample
\* increments the error counter inside its branch and stops there, before
\* the record calls that follow the if statement; rng keeps the position of
\* the iteration's start until the iteration ends.
generate_prometheus_http_metrics ==
  /\ pc = "prom_http"
  /\ LET d == HttpDraw(rng)
         calls == PromHttpCalls(d)
     IN  IF d.error_type # ""
           THEN /\ regA' = Record(regA, calls[1])
                /\ promCalls' = Append(promCalls, calls[1])
                /\ pc' = "prom_http_requests"
                /\ UNCHANGED <<rng, i>>
           ELSE /\ regA' = RecordAll(regA, calls)
                /\ promCalls' = promCalls \o calls
                /\ rng' = d.rng
                /\ LoopNext(HttpCount, "prom_db")
  /\ UNCHANGED <<process_cpu, prom_app_state, regB, otel_gauge_values, req, resp, generations,
                 entry, scrapes>>

\* The rest of an error sample's iteration: the record calls after the if
\* statement.
record_prometheus_http_request ==
  /\ pc = "prom_http_requests"
  /\ LET d == HttpDraw(rng)
         calls == Tail(PromHttpCalls(d))
     IN  /\ regA' = RecordAll(regA, calls)
         /\ promCalls' = promCalls \o calls
         /\ rng' = d.rng
  /\ i' = IF i + 1 < HttpCount THEN i + 1 ELSE 0
  /\ pc' = IF i + 1 < HttpCount THEN "prom_http" ELSE "prom_db"
  /\ UNCHANGED <<process_cpu, prom_app_state, regB, otel_gauge_values, req, resp, generations,
                 entry, scrapes>>

\* One iteration of generate_prometheus_database_metrics(30)
generate_prometheus_database_metrics ==
  /\ pc = "prom_db"
  /\ LET d == DbDraw(rng)
     IN  /\ regA' = RecordAll(regA, PromDbCalls(d))
         /\ promCalls' = promCalls \o PromDbCalls(d)
         /\ rng' = d.rng
  /\ LoopNext(DbCount, "prom_system")
  /\ UNCHANGED <<process_cpu, prom_app_state, regB, otel_gauge_values, req, resp, generations,
                 entry, scrapes>>

\* Variant: the registry-A system pass also refreshes the snapshot.
generate_prometheus_system_metrics_Snapshot ==
  /\ pc = "prom_system"
  /\ LET d == SystemDraw(rng)
     IN  /\ regA' = RecordAll(regA, PromSystemCalls(d))
         /\ promCalls' = promCalls \o PromSystemCalls(d)
         /\ otel_gauge_values' = OtelSystemSnapshot(otel_gauge_values, d)
         /\ rng' = d.rng
  /\ pc' = "prom_payload"
  /\ UNCHANGED <<process_cpu, prom_app_state, regB, i, req, resp, generations, entry, scrapes>>

generate_prometheus_system_metrics ==
  /\ pc = "prom_system"
  /\ LET d == SystemDraw(rng)
     IN  /\ regA' = RecordAll(regA, PromSystemCalls(d))
         /\ promCalls' = promCalls \o PromSystemCalls(d)
         /\ rng' = d.rng
  /\ pc' = "prom_payload"
  /\ UNCHANGED <<process_cpu, prom_app_state, regB, otel_gauge_values, i, req, resp, generations,
                 entry, scrapes>>

\* One iteration of generate_prometheus_payload_metrics(20)
generate_prometheus_payload_metrics ==
  /\ pc = "prom_payload"
  /\ LET d == PayloadDraw(rng)
     IN  /\ regA' = RecordAll(regA, PromPayloadCalls(d))
         /\ promCalls' = promCalls \o PromPayloadCalls(d)
         /\ rng' = d.rng
  /\ LoopNext(PayloadCount, "prom_write")
  /\ UNCHANGED <<process_cpu, prom_app_state, regB, otel_gauge_values, req, resp, generations,
                 entry, scrapes>>

\* The confirmation text of '/generatemetrics' is written.
write_generatemetrics ==
  /\ pc = "prom_write"
  /\ resp' = [resp EXCEPT !.body = <<"Prometheus metrics generated successfully!">>]
  /\ pc' = "serve_forever"
  /\ UNCHANGED <<process_cpu, regA, prom_app_state, regB, otel_gauge_values, rng, i, req,
                 generations, promCalls, entry, scrapes>>

\* do_GET, path '/generateotelmetrics'
do_GET_generateotelmetrics ==
  /\ pc = "serve_forever"
  /\ generations < MaxGenerations
  /\ req' = [method |-> "GET", path |-> "/generateotelmetrics"]
  /\ resp' = [status |-> 200, content_type |-> "text/plain", body |-> <<>>]
  /\ pc' = "otel_http"
  /\ i' = 0
  /\ generations' = generations + 1
  /\ entry' = Totals(regA, promCalls)
  /\ scrapes' = 0
  /\ UNCHANGED <<process_cpu, regA, prom_app_state, regB, otel_gauge_values, rng, promCalls>>

\* One iteration of generate_otel_http_metrics(50), in the same two parts.
generate_otel_http_metrics ==
  /\ pc = "otel_http"
  /\ LET d == HttpDraw(rng)
         calls == OtelHttpCalls(d)
     IN  IF d.error_type # ""
           THEN /\ regB' = OtelRecord(regB, calls[1])
                /\ pc' = "otel_http_requests"
                /\ UNCHANGED <<rng, i>>
           ELSE /\ regB' = OtelRecordAll(regB, calls)
                /\ rng' = d.rng
                /\ LoopNext(HttpCount, "otel_db")
  /\ UNCHANGED <<process_cpu, regA, prom_app_state, otel_gauge_values, req, resp, generations,
                 promCalls, entry, scrapes>>

record_otel_http_request ==
  /\ pc = "otel_http_requests"
  /\ LET d == HttpDraw(rng)
     IN  /\ regB' = OtelRecordAll(regB, Tail(OtelHttpCalls(d)))
         /\ rng' = d.rng
  /\ i' = IF i + 1 < HttpCount THEN i + 1 ELSE 0
  /\ pc' = IF i + 1 < HttpCount THEN "otel_http" ELSE "otel_db"
  /\ UNCHANGED <<process_cpu, regA, prom_app_state, otel_gauge_values, req, resp, generations,
                 promCalls, entry, scrapes>>

\* One iteration of generate_otel_database_metrics(30)
generate_otel_database_metrics ==
  /\ pc = "otel_db"
  /\ LET d == DbDraw(rng)
     IN  /\ regB' = OtelRecordAll(regB, OtelDbCalls(d))
         /\ rng' = d.rng
  /\ LoopNext(DbCount, "otel_system")
  /\ UNCHANGED <<process_cpu, regA, prom_app_state, otel_gauge_values, req, resp, generations,
                 promCalls, entry, scrapes>>

generate_otel_system_metrics ==
  /\ pc = "otel_system"
  /\ LET d == SystemDraw(rng)
     IN  /\ otel_gauge_values' = OtelSystemSnapshot(otel_gauge_values, d)
         /\ regB' = OtelRecordAll(regB, OtelSystemCalls(d))
         /\ rng' = d.rng
  /\ pc' = "otel_payload"
  /\ UNCHANGED <<process_cpu, regA, prom_app_state, i, req, resp, generations, promCalls, entry,
                 scrapes>>

\* One iteration of generate_otel_payload_metrics(20)
generate_otel_payload_metrics ==
  /\ pc = "otel_payload"
  /\ LET d == PayloadDraw(rng)
     IN  /\ regB' = OtelRecordAll(regB, OtelPayloadCalls(d))
         /\ rng' = d.rng
  /\ LoopNext(PayloadCount, "otel_write")
  /\ UNCHANGED <<process_cpu, regA, prom_app_state, otel_gauge_values, req, resp, generations,
                 promCalls, entry, scrapes>>

\* The confirmation text of '/generateotelmetrics' is written.
write_generateotelmetrics ==
  /\ pc = "otel_write"
  /\ resp' = [resp EXCEPT !.body = <<"OpenTelemetry metrics generated successfully!">>]
  /\ pc' = "serve_forever"
  /\ UNCHANGED <<process_cpu, regA, prom_app_state, regB, otel_gauge_values, rng, i, req,
                 generations, promCalls, entry, scrapes>>

\* Variant: the handler counts the scrape it serves.
do_GET_metrics_Counting ==
  /\ pc = "serve_forever"
  /\ resp' = [status |-> 200, content_type |-> "text/plain; version=0.0.4",
              body |-> generate_latest(regA, prom_app_state, process_cpu)]
  /\ req' = [method |-> "GET", path |-> "/metrics"]
  /\ scrapes' = IF scrapes = 0 THEN 1 ELSE 2
  /\ regA' = Record(regA, <<"http_requests_total", <<"GET", "/metrics", "200">>, 1>>)
  /\ UNCHANGED <<process_cpu, prom_app_state, regB, otel_gauge_values, rng, pc, i,
                 generations, promCalls, entry>>

\* do_GET, path '/metrics'
do_GET_metrics ==
  /\ pc = "serve_forever"
  /\ resp' = [status |-> 200, content_type |-> "text/plain; version=0.0.4",
              body |-> generate_latest(regA, prom_app_state, process_cpu)]
  /\ req' = [method |-> "GET", path |-> "/metrics"]
  /\ scrapes' = IF scrapes = 0 THEN 1 ELSE 2
  /\ UNCHANGED <<process_cpu, regA, prom_app_state, regB, otel_gauge_values, rng, pc, i,
                 generations, promCalls, entry>>

\* Variant: the reply carries the accumulated values of the request counter.
do_GET_otelmetrics_Values ==
  /\ pc = "serve_forever"
  /\ req' = [method |-> "GET", path |-> "/otelmetrics"]
  /\ resp' = [status |-> 200, content_type |-> "application/json",
              body |-> << [otel_metrics_summary(otel_gauge_values)
                             EXCEPT !.scope_metrics[1].metrics[1].note =
                                      regB.http_requests_total] >>]
  /\ UNCHANGED <<process_cpu, regA, prom_app_state, regB, otel_gauge_values, rng, pc, i,
                 generations, promCalls, entry, scrapes>>

\* do_GET, path '/otelmetrics'
do_GET_otelmetrics ==
  /\ pc = "serve_forever"
  /\ req' = [method |-> "GET", path |-> "/otelmetrics"]
  /\ resp' = [status |-> 200, content_type |-> "application/json",
              body |-> <<otel_metrics_summary(otel_gauge_values)>>]
  /\ UNCHANGED <<process_cpu, regA, prom_app_state, regB, otel_gauge_values, rng, pc, i,
                 generations, promCalls, entry, scrapes>>

\* Variant: the else branch counts the request it rejects.
do_GET_else_Counted ==
  /\ pc = "serve_forever"
  /\ \E r \in Requests :
       /\ r.method = "GET"
       /\ r.path \notin Routes
       /\ req' = r
       /\ regA' = Record(regA, <<"http_requests_total", <<"GET", r.path, "404">>, 1>>)
  /\ resp' = [status |-> 404, content_type |-> "text/plain", body |-> <<"404 - Not Found">>]
  /\ UNCHANGED <<process_cpu, prom_app_state, regB, otel_gauge_values, rng, pc, i,
                 generations, promCalls, entry, scrapes>>

\* Variant: the else branch sends the status of the other branches.
do_GET_else_Status200 ==
  /\ pc = "serve_forever"
  /\ \E r \in Requests :
       /\ r.method = "GET"
       /\ r.path \notin Routes
       /\ req' = r
  /\ resp' = [status |-> 200, content_type |-> "text/plain", body |-> <<"404 - Not Found">>]
  /\ UNCHANGED <<process_cpu, regA, prom_app_state, regB, otel_gauge_values, rng, pc, i,
                 generations, promCalls, entry, scrapes>>

\* do_GET, the else branch: any other path
do_GET_else ==
  /\ pc = "serve_forever"
  /\ \E r \in Requests :
       /\ r.method = "GET"
       /\ r.path \notin Routes
       /\ req' = r
  /\ resp' = [status |-> 404, content_type |-> "text/plain", body |-> <<"404 - Not Found">>]
  /\ UNCHANGED <<process_cpu, regA, prom_app_state, regB, otel_gauge_values, rng, pc, i,
                 generations, promCalls, entry, scrapes>>

\* MetricsHandler defines do_GET only: for any other method the base
\* handler finds no do_<METHOD> and answers send_error(501), an HTML page.
unsupported_method ==
  /\ pc = "serve_forever"
  /\ \E r \in Requests :
       /\ r.method # "GET"
       /\ req' = r
  /\ resp' = [status |-> 501, content_type |-> "text/html;charset=utf-8",
              body |-> <<"Unsupported method">>]
  /\ UNCHANGED <<process_cpu, regA, prom_app_state, regB, otel_gauge_values, rng, pc, i,
                 generations, promCalls, entry, scrapes>>

\* A KeyboardInterrupt is raised while serve_forever runs, in its loop or in
\* a handler the loop called: it is no Exception, so handle_error does not
\* catch it, and it leaves serve_forever for the except clause of run_server.
serve_forever_interrupted ==
  /\ pc \notin {"main", "except", "shutdown", "stopped"}
  /\ pc' = "except"
  /\ UNCHANGED <<process_cpu, regA, prom_app_state, regB, otel_gauge_values, rng, i, req, resp,
                 generations, promCalls, entry, scrapes>>

\* Variant: the handler names a state the Enum does not declare.
KeyboardInterrupt_Undeclared ==
  /\ pc = "except"
  /\ prom_app_state' = "stopped"
  /\ pc' = "shutdown"
  /\ UNCHANGED <<process_cpu, regA, regB, otel_gauge_values, rng, i, req, resp, generations,
                 promCalls, entry, scrapes>>

\* run_server, except KeyboardInterrupt: prom_app_state.state('shutting_down')
KeyboardInterrupt ==
  /\ pc = "except"
  /\ prom_app_state' = "shutting_down"
  /\ pc' = "shutdown"
  /\ UNCHANGED <<process_cpu, regA, regB, otel_gauge_values, rng, i, req, resp, generations,
                 promCalls, entry, scrapes>>

\* run_server, server.shutdown(): serve_forever has set its shut-down event
\* on the way out, so the call returns at once and run_server ends.
server_shutdown ==
  /\ pc = "shutdown"
  /\ pc' = "stopped"
  /\ UNCHANGED <<process_cpu, regA, prom_app_state, regB, otel_gauge_values, rng, i, req, resp,
                 generations, promCalls, entry, scrapes>>

\* The operating system charges the running process more CPU time.
cpu_time_advances ==
  /\ pc \notin {"except", "shutdown", "stopped"}
  /\ process_cpu < MaxProcessCpu
  /\ process_cpu' = process_cpu + 1
  /\ UNCHANGED <<regA, prom_app_state, regB, otel_gauge_values, rng, pc, i, req, resp,
                 generations, promCalls, entry, scrapes>>

Next ==
  \/ main
  \/ do_GET_root
  \/ do_GET_generatemetrics
  \/ generate_prometheus_http_metrics
  \/ record_prometheus_http_request
  \/ generate_prometheus_database_metrics
  \/ generate_prometheus_system_metrics
  \/ generate_prometheus_payload_metrics
  \/ write_generatemetrics
  \/ do_GET_generateotelmetrics
  \/ generate_otel_http_metrics
  \/ record_otel_http_request
  \/ generate_otel_database_metrics
  \/ generate_otel_system_metrics
  \/ generate_otel_payload_metrics
  \/ write_generateotelmetrics
  \/ do_GET_metrics
  \/ do_GET_otelmetrics
  \/ do_GET_else
  \/ unsupported_method
  \/ serve_forever_interrupted
  \/ KeyboardInterrupt
  \/ server_shutdown
  \/ cpu_time_advances

Spec == Init /\ [][Next]_vars

\* The positions inside the generators, where record calls are made.
Generating ==
  {"prom_http", "prom_http_requests", "prom_db", "prom_system", "prom_payload",
   "otel_http", "otel_http_requests", "otel_db", "otel_system", "otel_payload"}

\* A record call raises an Exception inside a generator, in place of the
\* next record call.  do_GET has no try/except: the exception
\* leaves the handler after send_response(200) and end_headers() have
\* written the status line and the headers, and before wfile.write.
\* The label and amount arguments of the program never make a record call
\* raise, so the error is a hypothesis of SpecFault only; it is taken in the
\* first iteration of a generator, in the last generating request the bound
\* allows.
record_raises ==
  /\ pc \in Generating
  /\ i = 0
  /\ generations = MaxGenerations
  /\ pc' = "handle_error"
  /\ UNCHANGED <<process_cpu, regA, prom_app_state, regB, otel_gauge_values, rng, i, req, resp,
                 generations, promCalls, entry, scrapes>>

\* serve_forever catches the Exception: handle_error prints the traceback,
\* shutdown_request closes the connection, and the loop goes on.
handle_error ==
  /\ pc = "handle_error"
  /\ pc' = "serve_forever"
  /\ UNCHANGED <<process_cpu, regA, prom_app_state, regB, otel_gauge_values, rng, i, req, resp,
                 generations, promCalls, entry, scrapes>>

NextFault == Next \/ record_raises \/ handle_error

\* The program under the hypothesis that a record call may raise.
SpecFault == Init /\ [][NextFault]_vars

-----------------------------------------------------------------------------
(* Properties *)

\* The record calls made since the running (or last) generating handler
\* started.
CallsSinceEntry == SubSeq(promCalls, entry.calls + 1, Len(promCalls))

\* How many of the calls are on the series (name, key).
CountCalls(calls, name, key) ==
  Cardinality({k \in 1..Len(calls) : calls[k][1] = name /\ calls[k][2] = key})

\* How many of the calls are on the metric name.
CountMetricCalls(calls, name) ==
  Cardinality({k \in 1..Len(calls) : calls[k][1] = name})

\* '/generatemetrics' has run all its generators: its body is about to be
\* written, or it was the last request served.
GenerateMetricsDone ==
  \/ pc = "prom_write"
  \/ pc = "serve_forever" /\ req = [method |-> "GET", path |-> "/generatemetrics"]

\* C1: when a GET /generatemetrics has run its generators, registry A has
\* gained exactly 50 request-counter increments, 50 duration and 50
\* response-size observations, 30 database observations, one set of every
\* protocol, region and queue gauge and of the CPU gauge, one increment of
\* bytes_processed_total for upload and one for download, and 20 inbound
\* and 20 outbound payload observations.
C1_GenerateMetricsCounts ==
  GenerateMetricsDone =>
    LET now == Totals(regA, promCalls)
        calls == CallsSinceEntry
    IN  /\ now.http_requests_total = entry.http_requests_total + 50
        /\ now.http_request_duration_seconds = entry.http_request_duration_seconds + 50
        /\ now.response_size_bytes = entry.response_size_bytes + 50
        /\ now.db_query_duration_seconds = entry.db_query_duration_seconds + 30
        /\ CountMetricCalls(calls, "http_requests_total") = 50
        /\ CountMetricCalls(calls, "http_request_duration_seconds") = 50
        /\ CountMetricCalls(calls, "response_size_bytes") = 50
        /\ CountMetricCalls(calls, "db_query_duration_seconds") = 30
        /\ \A k \in 1..3 :
             /\ CountCalls(calls, "active_connections", <<protocols[k]>>) = 1
             /\ CountCalls(calls, "memory_usage_bytes", <<regions[k]>>) = 1
             /\ CountCalls(calls, "queue_size", <<queues[k]>>) = 1
        /\ CountMetricCalls(calls, "active_connections") = 3
        /\ CountMetricCalls(calls, "memory_usage_bytes") = 3
        /\ CountMetricCalls(calls, "queue_size") = 3
        /\ CountMetricCalls(calls, "cpu_usage_percent") = 1
        /\ CountCalls(calls, "bytes_processed_total", <<"upload">>) = 1
        /\ CountCalls(calls, "bytes_processed_total", <<"download">>) = 1
        /\ CountMetricCalls(calls, "bytes_processed_total") = 2
        /\ CountCalls(calls, "payload_size_bytes_summary", <<"inbound">>) = 20
        /\ CountCalls(calls, "payload_size_bytes_summary", <<"outbound">>) = 20
        /\ CountMetricCalls(calls, "payload_size_bytes_summary") = 40

\* A second '/generatemetrics' has been served, and its samples included
\* both kinds of error.
C1_Witness ==
  /\ pc = "serve_forever"
  /\ req = [method |-> "GET", path |-> "/generatemetrics"]
  /\ resp.body # <<>>
  /\ entry.http_requests_total = 50
  /\ \E k \in 1..Len(CallsSinceEntry) :
       CallsSinceEntry[k][1] = "http_errors_total" /\ CallsSinceEntry[k][2][3] = "not_found"
  /\ \E k \in 1..Len(CallsSinceEntry) :
       CallsSinceEntry[k][1] = "http_errors_total" /\ CallsSinceEntry[k][2][3] = "internal_error"

\* The step serves a GET whose path is no route.
UnroutableServed ==
  /\ pc = "serve_forever"
  /\ pc' = "serve_forever"
  /\ req'.method = "GET"
  /\ req'.path \notin Routes

\* C2: a GET of a path that is no route is answered 404 with a non-empty
\* text/plain body, and leaves registry A, registry B and the
\* observable-gauge snapshot as they were.
C2_UnroutableLeavesRegistries ==
  [][UnroutableServed =>
       /\ resp'.status = 404
       /\ resp'.content_type = "text/plain"
       /\ resp'.body # <<>>
       /\ regA' = regA
       /\ prom_app_state' = prom_app_state
       /\ regB' = regB
       /\ otel_gauge_values' = otel_gauge_values]_vars

\* '/nonexistent' has been answered after both registries were generated into.
C2_Witness ==
  /\ pc = "serve_forever"
  /\ req = [method |-> "GET", path |-> "/nonexistent"]
  /\ resp.status = 404
  /\ Len(regA.http_requests_total.keys) > 0
  /\ DOMAIN regB.http_requests_total # {}

\* A request has been answered and the server waits for the next one.
Answered == pc = "serve_forever" /\ req.method # ""

\* C3 as stated: every request whose path is no route, or whose method is
\* not GET, is answered 404 with a text/plain body.
C3_AsStated ==
  (Answered /\ (req.method # "GET" \/ req.path \notin Routes)) =>
    (resp.status = 404 /\ resp.content_type = "text/plain")

\* C3: routing is by exact path match, for GET: a GET of one of the five
\* paths is answered 200, a GET of any other path 404 with a text/plain
\* body, and a request of any other method 501 with the base handler's
\* HTML error page, whatever its path.
C3_Routing ==
  Answered =>
    IF req.method # "GET"
      THEN resp.status = 501 /\ resp.content_type = "text/html;charset=utf-8"
      ELSE IF req.path \in Routes
        THEN resp.status = 200
        ELSE resp.status = 404 /\ resp.content_type = "text/plain" /\ resp.body # <<>>

\* POST /metrics has been answered.
C3_Witness ==
  /\ Answered
  /\ req = [method |-> "POST", path |-> "/metrics"]
  /\ resp.status = 501

-----------------------------------------------------------------------------

\* GET /metrics was the last request served: resp.body is its reply, built
\* from the registry as it is now.
MetricsServed ==
  pc = "serve_forever" /\ req = [method |-> "GET", path |-> "/metrics"]

\* '/generatemetrics' has run to completion at least once.
GeneratedMetrics == CounterTotal(regA.http_requests_total, 1) >= 50

\* The step serves GET /metrics and the request served before it was GET
\* /metrics too: resp.body is the first reply, resp'.body the second.
SecondScrape ==
  /\ pc = "serve_forever"
  /\ pc' = "serve_forever"
  /\ req = [method |-> "GET", path |-> "/metrics"]
  /\ req' = [method |-> "GET", path |-> "/metrics"]
  /\ process_cpu' = process_cpu
  /\ GeneratedMetrics

\* C4 as stated: the second of two consecutive GET /metrics returns the
\* body of the first.
C4_AsStated == [][SecondScrape => resp'.body = resp.body]_vars

\* C4: the second of two consecutive GET /metrics returns the same lines
\* as the first for every metric the application registers, and serving
\* /metrics changes none of them.  The process collector's sample, which
\* the default registry also exports, may differ.
C4_ApplicationLinesStable ==
  [][SecondScrape =>
       /\ ApplicationLines(resp'.body) = ApplicationLines(resp.body)
       /\ regA' = regA
       /\ prom_app_state' = prom_app_state]_vars

\* A second GET /metrics in a row has been answered after a
\* '/generatemetrics', and its body carries a process collector reading
\* taken after the process was charged more CPU time.
C4_Witness ==
  /\ MetricsServed
  /\ GeneratedMetrics
  /\ scrapes = 2
  /\ process_cpu > 0
  /\ SampleValue(resp.body, "process_cpu_seconds_total", <<>>) = process_cpu
  /\ SampleValue(resp.body, "http_requests_total",
                 LabelPairs(PromLabelNames.http_requests_total,
                            regA.http_requests_total.keys[1])) > 0

Counters == {name \in DOMAIN PromKind : PromKind[name] = "counter"}
Gauges == {name \in DOMAIN PromKind : PromKind[name] = "gauge"}
Histograms == {name \in DOMAIN PromKind : PromKind[name] = "histogram"}

\* The sum of the amounts of the calls lo..hi that are on the series
\* (name, key), by halving the range.
RECURSIVE SumAmounts(_, _, _, _, _)
SumAmounts(calls, name, key, lo, hi) ==
  IF lo > hi THEN 0
  ELSE IF lo = hi
    THEN (IF calls[lo][1] = name /\ calls[lo][2] = key THEN calls[lo][3] ELSE 0)
    ELSE LET mid == (lo + hi) \div 2
         IN  SumAmounts(calls, name, key, lo, mid)
             + SumAmounts(calls, name, key, mid + 1, hi)

\* The amount of the last call on the series (name, key); -1 if none.
LastAmount(calls, name, key) ==
  LET on == {k \in 1..Len(calls) : calls[k][1] = name /\ calls[k][2] = key}
  IN  IF on = {} THEN -1
      ELSE calls[CHOOSE k \in on : \A j \in on : j <= k][3]

\* Every series a call was made on is exported.
SeriesExported(kind) ==
  \A k \in 1..Len(promCalls) :
    PromKind[promCalls[k][1]] = kind =>
      promCalls[k][2] \in Range(regA[promCalls[k][1]].keys)

\* C5: in every reply to GET /metrics, the value reported for a counter
\* series of registry A is the sum of all the amounts recorded for that
\* label-value tuple since the process started, the startup system pass
\* included.
C5_CounterIsSumOfAmounts ==
  MetricsServed =>
    LET body == resp.body
    IN  /\ SeriesExported("counter")
        /\ \A name \in Counters :
             \A key \in Range(regA[name].keys) :
               SampleValue(body, name, LabelPairs(PromLabelNames[name], key))
                 = SumAmounts(promCalls, name, key, 1, Len(promCalls))

\* After two '/generatemetrics', the upload counter holds three amounts and
\* some request series more than one increment.
C5_Witness ==
  /\ MetricsServed
  /\ CountCalls(promCalls, "bytes_processed_total", <<"upload">>) = 3
  /\ regA.bytes_processed_total.val[<<"upload">>] > 1000000
  /\ \E key \in Range(regA.http_requests_total.keys) :
       regA.http_requests_total.val[key] >= 3

\* The amounts a generator may add to a counter series in one step.
StepAmounts(name, key) ==
  IF name = "bytes_processed_total"
    THEN IF key = <<"upload">> THEN 100000..1000000
         ELSE IF key = <<"download">> THEN 500000..5000000 ELSE {}
    ELSE {1}

\* A counter series moves from old to new in one step (old = 0 for a new
\* series): it stays, or grows by an amount its generator may add.
CounterStep(name, key, old, new) ==
  new >= old /\ (new = old \/ (new - old) \in StepAmounts(name, key))

\* C6: across every step, every counter series of either registry is kept
\* and its value does not decrease; it grows by 1 (request and error
\* counters), by an integer in 100000..1000000 (upload) or by one in
\* 500000..5000000 (download).
C6_CountersNeverDecrease ==
  [][/\ \A name \in Counters :
          /\ \A key \in DOMAIN regA[name].val :
               /\ key \in DOMAIN regA'[name].val
               /\ CounterStep(name, key, regA[name].val[key], regA'[name].val[key])
          /\ \A key \in DOMAIN regA'[name].val \ DOMAIN regA[name].val :
               CounterStep(name, key, 0, regA'[name].val[key])
     /\ \A name \in {n \in DOMAIN OtelKind : OtelKind[n] = "counter"} :
          /\ \A key \in DOMAIN regB[name] :
               /\ key \in DOMAIN regB'[name]
               /\ CounterStep(name, key, regB[name][key], regB'[name][key])
          /\ \A key \in DOMAIN regB'[name] \ DOMAIN regB[name] :
               CounterStep(name, key, 0, regB'[name][key])]_vars

\* Counters of both registries have accumulated over several passes.
C6_Witness ==
  /\ pc = "serve_forever"
  /\ <<"upload">> \in DOMAIN regB.bytes_processed_total
  /\ regB.bytes_processed_total[<<"upload">>] > 1000000
  /\ regA.bytes_processed_total.val[<<"download">>] > 5000000
  /\ \E key \in DOMAIN regB.http_requests_total : regB.http_requests_total[key] >= 3

\* C7: in every reply to GET /metrics, the value reported for a gauge
\* series of registry A is the value of the latest set call for that
\* label-value tuple.
C7_GaugeIsLastSet ==
  MetricsServed =>
    LET body == resp.body
    IN  /\ SeriesExported("gauge")
        /\ \A name \in Gauges :
             \A key \in Range(regA[name].keys) :
               CountCalls(promCalls, name, key) > 0 =>
                 SampleValue(body, name, LabelPairs(PromLabelNames[name], key))
                   = LastAmount(promCalls, name, key)

\* A gauge has been set three times, the last value differing from the
\* first two.
C7_Witness ==
  /\ MetricsServed
  /\ LET on == {k \in 1..Len(promCalls) :
                  promCalls[k][1] = "active_connections" /\ promCalls[k][2] = <<"http">>}
     IN  /\ Cardinality(on) = 3
         /\ \A k \in on :
              promCalls[k][3] = regA.active_connections.val[<<"http">>]
                => \A j \in on : j <= k


\* The observations logged on the series (name, key) that are <= bound.
CountUpTo(calls, name, key, bound) ==
  Cardinality({k \in 1..Len(calls) :
                 calls[k][1] = name /\ calls[k][2] = key /\ calls[k][3] <= bound})

\* The bucket, count and sum samples of a histogram child are cumulative:
\* non-decreasing with the boundary, and the +Inf bucket equals _count.
Cumulative(name, key, child) ==
  LET samples == HistogramSamples(name, key, child)
      n == Len(PromBuckets[name]) + 1
  IN  /\ Len(samples) = n + 2
      /\ \A b \in 1..(n - 1) : samples[b][3] <= samples[b + 1][3]
      /\ samples[n][2][Len(samples[n][2])] = <<"le", "+Inf">>
      /\ samples[n + 1][1] = name \o "_count"
      /\ samples[n][3] = samples[n + 1][3]

\* C8: in every reachable state the bucket counts of every histogram
\* series of registry A are non-decreasing as the boundary increases and
\* the +Inf bucket equals _count; and in every reply to GET /metrics each
\* bucket reports the number of observations recorded for the series that
\* are <= its boundary, and _count the number of all of them.
C8_HistogramCumulative ==
  /\ \A name \in Histograms :
       \A key \in Range(regA[name].keys) :
         Cumulative(name, key, regA[name].val[key])
  /\ MetricsServed =>
       /\ SeriesExported("histogram")
       /\ \A name \in Histograms :
            \A key \in Range(regA[name].keys) :
              LET pairs == LabelPairs(PromLabelNames[name], key)
              IN  /\ SampleValue(resp.body, name \o "_count", pairs)
                       = CountCalls(promCalls, name, key)
                  /\ \A b \in 1..Len(PromBuckets[name]) :
                       SampleValue(resp.body, name \o "_bucket",
                                   Append(pairs, <<"le", PromBucketLabels[name][b]>>))
                         = CountUpTo(promCalls, name, key, PromBuckets[name][b])

\* A reply to GET /metrics reports a histogram series whose observations
\* fell in at least two different buckets.
C8_Witness ==
  /\ MetricsServed
  /\ \E key \in Range(regA.response_size_bytes.keys) :
       LET child == regA.response_size_bytes.val[key]
       IN  /\ Cardinality({b \in 1..Len(child.buckets) : child.buckets[b] > 0}) >= 2
           /\ SumTo(child.buckets, Len(child.buckets)) >= 10

\* GET /otelmetrics was the last request served.
OtelMetricsServed ==
  pc = "serve_forever" /\ req = [method |-> "GET", path |-> "/otelmetrics"]

\* The values json.dumps is given for a snapshot dict: string keys of the
\* generator's label set, integer values.
JsonRepresentable(dict, keys) ==
  DOMAIN dict \subseteq Range(keys) /\ \A k \in DOMAIN dict : dict[k] \in Int

\* C9: every reply to GET /otelmetrics carries exactly the four resource
\* attributes given to Resource.create at startup and the scope identity
\* given to get_meter, and its observable-gauge values are JSON numbers
\* under string keys.
C9_OtelResourceFixed ==
  OtelMetricsServed =>
    LET body == resp.body[1]
        m == body.scope_metrics[1].metrics
    IN  /\ body.resource.attributes = resource
        /\ Len(body.scope_metrics) = 1
        /\ body.scope_metrics[1].scope = meter
        /\ Len(m) = 11
        /\ JsonRepresentable(m[4].current_values, protocols)
        /\ JsonRepresentable(m[5].current_values, regions)
        /\ JsonRepresentable(m[6].current_values, queues)
        /\ m[7].current_value \in Int

\* GET /otelmetrics has been answered after generating requests on both
\* registries.
C9_Witness ==
  /\ OtelMetricsServed
  /\ generations >= 2
  /\ Len(regA.http_requests_total.keys) > 0
  /\ DOMAIN regB.http_requests_total # {}

\* C10: in every reachable state the exposition of app_state has one line
\* for each of starting, running, degraded and shutting_down, exactly one
\* of them with value 1 and the others with value 0.
C10_EnumOneActiveState ==
  LET lines == EnumLines(prom_app_state)
      states == {k \in 1..Len(lines) : lines[k][1] = "sample"}
  IN  /\ {lines[k][3] : k \in states}
           = {<< <<"app_state", st>> >> :
                st \in {"starting", "running", "degraded", "shutting_down"}}
      /\ Cardinality(states) = 4
      /\ Cardinality({k \in states : lines[k][4] = 1}) = 1
      /\ \A k \in states : lines[k][4] \in {0, 1}

\* The state has moved from running to shutting_down after requests were
\* served.
C10_Witness ==
  /\ pc = "stopped"
  /\ prom_app_state = "shutting_down"
  /\ generations > 0
  /\ SampleValue(EnumLines(prom_app_state), "app_state",
                 << <<"app_state", "shutting_down">> >>) = 1

\* serve_forever is running: connections are accepted and requests served.
Serving == pc \notin {"main", "except", "shutdown", "stopped"}

\* C11: on a KeyboardInterrupt app_state goes from running to shutting_down
\* while requests are still being served, before the listener stops
\* accepting connections, and once shutting_down is set it never changes.
C11_AsStated ==
  [][ /\ (prom_app_state # "shutting_down" /\ prom_app_state' = "shutting_down")
         => (prom_app_state = "running" /\ Serving)
      /\ prom_app_state = "shutting_down" => prom_app_state' = "shutting_down" ]_vars

\* C12: a generating request in which a record call raised is answered with
\* status 500, and the server goes on to serve the requests that follow.
C12_AsStated ==
  [][ /\ pc' = "handle_error" => resp'.status = 500
      /\ pc = "handle_error" => pc' \in {"serve_forever", "except"} ]_vars

\* The gauge children of a registry-A metric are those of keys, each in lo..hi.
GaugeHolds(metric, keys, lo, hi) ==
  /\ DOMAIN metric.val = {<<k>> : k \in Range(keys)}
  /\ \A key \in DOMAIN metric.val : metric.val[key] \in lo..hi

\* The entries of a snapshot dict are those of keys, each in lo..hi.
SnapshotHolds(dict, keys, lo, hi) ==
  /\ DOMAIN dict = Range(keys)
  /\ \A k \in DOMAIN dict : dict[k] \in lo..hi

\* serve_forever has been entered and no connection accepted yet.
FirstAccept == pc = "serve_forever" /\ req.method = ""

\* C13: before the first connection is accepted exactly one system pass has
\* run on registry A and one on registry B; from then on the registry-A
\* gauges and the snapshot hold a value for every protocol, region and queue
\* and for the CPU scalar, each in its generator range, and the snapshot
\* dicts never have another key.
C13_BaselineBeforeServing ==
  /\ DOMAIN otel_gauge_values.active_connections \subseteq Range(protocols)
  /\ DOMAIN otel_gauge_values.memory_usage \subseteq Range(regions)
  /\ DOMAIN otel_gauge_values.queue_size \subseteq Range(queues)
  /\ pc # "main" =>
        /\ GaugeHolds(regA.active_connections, protocols, 10, 100)
        /\ GaugeHolds(regA.memory_usage_bytes, regions, 1000000, 50000000)
        /\ GaugeHolds(regA.queue_size, queues, 0, 100)
        /\ regA.cpu_usage_percent.val[<<>>] \in 1000..9000
        /\ SnapshotHolds(otel_gauge_values.active_connections, protocols, 10, 100)
        /\ SnapshotHolds(otel_gauge_values.memory_usage, regions, 1000000, 50000000)
        /\ SnapshotHolds(otel_gauge_values.queue_size, queues, 0, 100)
        /\ otel_gauge_values.cpu_usage \in 1000..9000
  /\ FirstAccept =>
        /\ Len(promCalls) = 12
        /\ \A name \in Gauges \cup {"bytes_processed_total"} :
              \A key \in DOMAIN regA[name].val : CountCalls(promCalls, name, key) = 1
        /\ \E s \in 0..(NumSeeds - 1) : rng = Draws(s, 24)[24]
        /\ DOMAIN regB.bytes_processed_total = {<<"upload">>, <<"download">>}
        /\ regB.bytes_processed_total[<<"upload">>] \in 100000..1000000
        /\ regB.bytes_processed_total[<<"download">>] \in 500000..5000000
        /\ \A name \in DOMAIN regB : name # "bytes_processed_total" => DOMAIN regB[name] = {}

\* Requests are served after generations, with the gauges still complete.
C13_Witness ==
  /\ Answered
  /\ generations = MaxGenerations
  /\ DOMAIN otel_gauge_values.queue_size = Range(queues)
  /\ DOMAIN regA.queue_size.val = {<<k>> : k \in Range(queues)}

\* The observable-gauge value an entry of the reply carries, by position.
SnapshotField(k) ==
  CASE k = 4 -> [current_values |-> otel_gauge_values.active_connections]
    [] k = 5 -> [current_values |-> otel_gauge_values.memory_usage]
    [] k = 6 -> [current_values |-> otel_gauge_values.queue_size]
    [] k = 7 -> [current_value |-> otel_gauge_values.cpu_usage]

\* C14: a reply to GET /otelmetrics is a function of the snapshot alone.
\* Its counter and histogram entries carry the name, description, unit and
\* type of the instrument and no value, its observable-gauge entries carry
\* the current snapshot, and the whole body is what the snapshot alone
\* gives, whatever registry B has accumulated.
C14_BodyFromSnapshotOnly ==
  OtelMetricsServed =>
    LET m == resp.body[1].scope_metrics[1].metrics
        Static == {"name", "description", "unit", "type"}
    IN  /\ Len(m) = Len(OtelInstruments)
        /\ \A k \in 1..Len(m) :
              /\ \A f \in Static : m[k][f] = OtelInstruments[k][f]
              /\ IF OtelInstruments[k].type = "Observable Gauge"
                   THEN /\ DOMAIN m[k] = Static \cup DOMAIN SnapshotField(k)
                        /\ \A f \in DOMAIN SnapshotField(k) : m[k][f] = SnapshotField(k)[f]
                   ELSE /\ DOMAIN m[k] \subseteq Static \cup {"note"}
                        /\ "note" \in DOMAIN m[k] =>
                              m[k].note = "Actual values tracked internally"
        /\ resp.body = <<otel_metrics_summary(otel_gauge_values)>>

\* GET /otelmetrics has been answered with registry B holding counter and
\* histogram series, after a system pass replaced the startup snapshot.
C14_Witness ==
  /\ OtelMetricsServed
  /\ DOMAIN regB.http_errors_total # {}
  /\ DOMAIN regB.payload_size_bytes # {}
  /\ resp.body[1].scope_metrics[1].metrics[6].current_values = otel_gauge_values.queue_size
  /\ \A s \in 0..(NumSeeds - 1) :
       otel_gauge_values # OtelSystemSnapshot(otel_gauge_values, SystemDraw(SystemDraw(s).rng))

\* The positions of the two generating handlers.
PromPositions ==
  {"prom_http", "prom_http_requests", "prom_db", "prom_system", "prom_payload", "prom_write"}

OtelPositions ==
  {"otel_http", "otel_http_requests", "otel_db", "otel_system", "otel_payload", "otel_write"}

\* The step belongs to the handling of GET /generatemetrics, of
\* GET /generateotelmetrics, or answers one of the three reading routes.
InGenerateMetrics == pc \in PromPositions \/ pc' \in PromPositions

InGenerateOtelMetrics == pc \in OtelPositions \/ pc' \in OtelPositions

ReadingRoute ==
  /\ pc = "serve_forever"
  /\ pc' = "serve_forever"
  /\ req'.method = "GET"
  /\ req'.path \in {"/", "/metrics", "/otelmetrics"}

\* What each route leaves alone and what it changes, as registry state.
RouteFrames ==
  /\ ReadingRoute => UNCHANGED <<regA, prom_app_state, regB, otel_gauge_values>>
  /\ InGenerateMetrics =>
        /\ UNCHANGED <<regB, otel_gauge_values>>
        /\ otel_metrics_summary(otel_gauge_values') = otel_metrics_summary(otel_gauge_values)
  /\ InGenerateOtelMetrics => UNCHANGED <<regA, prom_app_state>>
  /\ (pc \in PromPositions \ {"prom_write"} /\ pc' \in PromPositions
        /\ process_cpu' = process_cpu) => regA' # regA
  /\ (pc \in OtelPositions \ {"otel_write"} /\ pc' \in OtelPositions
        /\ process_cpu' = process_cpu) => regB' # regB
  /\ otel_gauge_values' # otel_gauge_values => pc \in {"main", "otel_system"}

\* C15 as stated: each route changes only its own state, and in particular
\* the body /metrics would give is the same before and after every step of
\* a /generateotelmetrics request.
C15_AsStated ==
  [][ /\ RouteFrames
      /\ InGenerateOtelMetrics =>
            generate_latest(regA', prom_app_state', process_cpu')
              = generate_latest(regA, prom_app_state, process_cpu) ]_vars

\* C15: the reading routes change neither registry nor the snapshot;
\* /generatemetrics changes registry A and leaves registry B and the
\* snapshot, hence the /otelmetrics body, as they were;
\* /generateotelmetrics changes registry B, and the snapshot in its system
\* pass, and leaves registry A, hence the application lines of the /metrics
\* body, as they were.
C15_RouteFrames ==
  [][ /\ RouteFrames
      /\ InGenerateOtelMetrics =>
            ApplicationLines(generate_latest(regA', prom_app_state', process_cpu'))
              = ApplicationLines(generate_latest(regA, prom_app_state, process_cpu)) ]_vars

\* A /generateotelmetrics request has completed after a /generatemetrics
\* request, and both registries hold what the requests recorded.
C15_Witness ==
  /\ pc = "serve_forever"
  /\ req = [method |-> "GET", path |-> "/generateotelmetrics"]
  /\ resp.body = <<"OpenTelemetry metrics generated successfully!">>
  /\ CounterTotal(regA.http_requests_total, 1) = 50
  /\ DOMAIN regB.http_request_duration_seconds # {}

\* The value of a registry-A counter series, 0 when labels() never made it.
ChildValue(metric, key) == IF key \in DOMAIN metric.val THEN metric.val[key] ELSE 0

\* The sum of a registry-B counter series, 0 when nothing was added to it.
SeriesValue(series, attrs) == IF attrs \in DOMAIN series THEN series[attrs] ELSE 0

\* The error counter of registry A agrees with its request counter.
PromErrorsAgree ==
  /\ \A key \in DOMAIN regA.http_requests_total.val : key[3] \in {"200", "404", "500"}
  /\ \A key \in DOMAIN regA.http_errors_total.val :
        key[3] \in {"not_found", "internal_error"}
  /\ \A m \in Range(methods), e \in Range(endpoints) :
        /\ ChildValue(regA.http_errors_total, <<m, e, "not_found">>)
             = ChildValue(regA.http_requests_total, <<m, e, "404">>)
        /\ ChildValue(regA.http_errors_total, <<m, e, "internal_error">>)
             = ChildValue(regA.http_requests_total, <<m, e, "500">>)

\* The error counter of registry B agrees with its request counter.
OtelErrorsAgree ==
  /\ \A attrs \in DOMAIN regB.http_requests_total : attrs[3] \in {"200", "404", "500"}
  /\ \A attrs \in DOMAIN regB.http_errors_total :
        attrs[3] \in {"not_found", "internal_error"}
  /\ \A m \in Range(methods), e \in Range(endpoints) :
        /\ SeriesValue(regB.http_errors_total, <<m, e, "not_found">>)
             = SeriesValue(regB.http_requests_total, <<m, e, "404">>)
        /\ SeriesValue(regB.http_errors_total, <<m, e, "internal_error">>)
             = SeriesValue(regB.http_requests_total, <<m, e, "500">>)

\* C16 as stated: the two counters of each registry agree in every
\* reachable state.
C16_AsStated == PromErrorsAgree /\ OtelErrorsAgree

\* C16: while the server is serving, the error counter of each registry
\* agrees with its request counter for every (method, endpoint), with no
\* status but 200, 404, 500 and no error_type but not_found, internal_error,
\* except between the two increments of one error sample, where the error
\* counter is ahead; a step that counts a status 200 request leaves the
\* error counter as it was.
C16_ErrorsAgreeBetweenSamples ==
  [][ /\ (Serving /\ pc # "prom_http_requests") => PromErrorsAgree
      /\ (Serving /\ pc # "otel_http_requests") => OtelErrorsAgree
      /\ (pc = "prom_http_requests") => ~PromErrorsAgree
      /\ (pc = "otel_http_requests") => ~OtelErrorsAgree
      /\ (pc = "prom_http" /\ pc' \in {"prom_http", "prom_db"} /\ regA' # regA)
            => regA'.http_errors_total = regA.http_errors_total
      /\ (pc = "otel_http" /\ pc' \in {"otel_http", "otel_db"} /\ regB' # regB)
            => regB'.http_errors_total = regB.http_errors_total ]_vars

\* A request is answered with both error types counted in both registries.
C16_Witness ==
  /\ Answered
  /\ \E m \in Range(methods), e \in Range(endpoints) :
       ChildValue(regA.http_errors_total, <<m, e, "not_found">>) > 0
  /\ \E m \in Range(methods), e \in Range(endpoints) :
       ChildValue(regA.http_errors_total, <<m, e, "internal_error">>) > 0
  /\ \E m \in Range(methods), e \in Range(endpoints) :
       SeriesValue(regB.http_errors_total, <<m, e, "not_found">>) > 0
  /\ \E m \in Range(methods), e \in Range(endpoints) :
       SeriesValue(regB.http_errors_total, <<m, e, "internal_error">>) > 0

====
